---- MODULE Spec2Model ----
(***************************************************************************)
(* pping: a concurrent ICMP echo prober.                                   *)
(*                                                                         *)
(* Goroutines modelled: main (warm-up loop, then the select loop over      *)
(* requestReceiver / resultReceiver / errorReceiver / quit), Listener      *)
(* (owner of the socket), Pinger (round-robin dispatcher), one Ping task   *)
(* per probe, and the anonymous stdin task that sends quit three times.    *)
(* All channels are unbuffered: a send and its receive are one step.       *)
(*                                                                         *)
(* main is the version with the per-target statistics (mins, maxs, tots,   *)
(* cnts); pping.go is the same loop without them.  Listener, Pinger and    *)
(* Ping are those of listener.go and pinger.go.                            *)
(*                                                                         *)
(* Time is read, not watched: every time.Now() returns the previous        *)
(* reading or a later one.  The environment (name resolution, the network, *)
(* the socket) may fail MaxFaults times in a run.  icmp.Message.Marshal of *)
(* an Echo body does not fail, so Ping's first error return is not taken.  *)
(***************************************************************************)
EXTENDS Integers, Sequences, FiniteSets, TLC

\* ---------------------------------------------------------------- bounds
\* number of urls given on the command line
MaxUrls == 2
\* the Pinger stops dispatching at this sweep index
MaxSweep == 3
\* the clock stops advancing at this value (nanoseconds)
MaxTime == 1
\* faults of the environment in one run: an address that does not resolve, a
\* failed write, a lost reply, a duplicated reply, a foreign datagram, a read
\* error
MaxFaults == 1

\* ------------------------------------------------------ program constants
\* width of the ICMP echo identifier and sequence fields
WireBits == 16
\* the stdin task sends on quit this many times
QuitSends == 3
\* every results row starts with the url and the address
RowHeader == 2
\* time.Millisecond in nanoseconds
Millisecond == 1000000
\* decimals of a persisted sample
SampleDecimals == 4
\* stored bits of a float64's significand
Float64Mantissa == 52
\* initial mins[i] (1<<63 - 1) and maxs[i] (-1 << 63), held as the largest
\* and smallest integers of the checker's 32-bit arithmetic
MaxDuration == 2147483647
MinDuration == -2147483647

VARIABLES
    mainPc,      \* position of main
    u,           \* warm-up loop: index of the url being tried (1..MaxUrls)
    ipAddrs,     \* urls that survived warm-up, in order; index-1 is the target id
    mainReq,     \* the Request main received and has not stamped yet
    requests,    \* [target id -> [seq -> start time]]
    results,     \* [target id -> row <<url, address, sample, ...>>]
    mins, maxs, tots, cnts,
    totalPings,  \* the figure printed at quit (-1 before)
    lisPc,       \* position of Listener
    lisRes,      \* the Result Listener is sending (with the datagram's origin)
    sockOpen,    \* the PacketConn exists and is not closed
    net,         \* datagrams on their way to the socket
    faults,      \* faults of the environment so far
    pingerPc,    \* position of Pinger
    i,           \* Pinger's sweep index
    tasks,       \* running Ping goroutines
    quitPc,      \* position of the stdin task
    quitLeft,    \* quit sends still to do
    now,         \* the monotonic clock
    \* observers (not program state)
    dispatched,  \* log of <<id, seq>> in dispatch order
    recorded,    \* sweep keys whose new-pending notice was stamped
    outcome,     \* the kind of notice main's loop printed last
    matched,     \* number of Matched outcomes so far
    oob,         \* a slice was indexed out of range
    quitGot,     \* how many quit signals each consumer received
    lisEnd       \* which return of Listener ended it ("none" while it runs)

vars == <<mainPc, u, ipAddrs, mainReq, requests, results, mins, maxs, tots,
          cnts, totalPings, lisPc, lisRes, sockOpen, net, faults, pingerPc,
          i, tasks, quitPc, quitLeft, now, dispatched, recorded, outcome,
          matched, oob, quitGot, lisEnd>>

mainVars == <<mainPc, u, ipAddrs, mainReq, requests, results, mins, maxs,
              tots, cnts, totalPings>>
tableVars == <<requests, results, mins, maxs, tots, cnts>>
obsVars == <<dispatched, recorded, outcome, matched, oob, quitGot, lisEnd>>

\* --------------------------------------------------------------- helpers
Consumers == {"pinger", "listener", "main"}
NoReq == [id |-> -1, seq |-> -1]
NoRes == [id |-> -1, seq |-> -1, endTime |-> -1, src |-> "none", oid |-> -1,
          oseq |-> -1, url |-> -1]

\* a notice of main's loop: its kind, and for a match the duration and whether
\* the reply answered the probe it was matched with
Notice(kind, dur, own) == [kind |-> kind, dur |-> dur, own |-> own]

ipCount == Len(ipAddrs)

\* the process has exited: main returned, log.Fatal ran, or main panicked
Exited == mainPc \in {"done", "fatal", "panic"}

\* uint16(x) as icmp.Echo.Marshal writes ID and Seq
Wire(x) == x % (2 ^ WireBits)

\* the bounds check Go performs on requests[id], results[id], mins[id], ...
Indexable(id) == id >= 0 /\ id < ipCount

\* mutant: the upper limit of the check is off by one
InRange_OffByOne(id) == id >= 0 /\ id <= ipCount

\* the explicit check of main on Result.id and Error.id
InRange(id) == id >= 0 /\ id < ipCount

Abs(x) == IF x < 0 THEN -x ELSE x

\* the binary exponent of the float64 quotient a/unit (a > 0): the e with
\* 2^Float64Mantissa <= a * 2^e / unit < 2^(Float64Mantissa + 1)
RECURSIVE ScaleUp(_, _)
ScaleUp(a, unit) == IF a >= unit THEN 0 ELSE 1 + ScaleUp(2 * a, unit)
RECURSIVE ScaleDown(_, _)
ScaleDown(a, unit) ==
    IF a \div 2 < unit THEN 0 ELSE 1 + ScaleDown(a \div 2, unit)
Float64Exponent(a, unit) ==
    Float64Mantissa
        + (IF a < unit THEN ScaleUp(a, unit) ELSE 0 - ScaleDown(a, unit))

\* (r * 2^e) % m, one doubling at a time
RECURSIVE Doubled(_, _, _)
Doubled(r, m, e) == IF e = 0 THEN r ELSE Doubled((2 * r) % m, m, e - 1)

\* float64(a) / float64(unit) for 0 <= a < 2^31: where the quotient, rounded
\* to nearest-even at Float64Mantissa + 1 significant bits, lies relative to
\* the exact a/unit: 1 above, -1 below, 0 when it is exact
Float64Rounding(a, unit) ==
    IF a = 0 THEN 0
    ELSE LET scaled == Doubled(a % (2 * unit), 2 * unit,
                               Float64Exponent(a, unit))
             rest == scaled % unit
             odd == scaled >= unit
         IN  IF rest = 0 THEN 0
             ELSE IF 2 * rest > unit \/ (2 * rest = unit /\ odd) THEN 1
             ELSE -1

\* long division: the first `decimals` decimals of a/unit, as the pair
\* <<floor(a * 10^decimals / unit), remainder>>
RECURSIVE Decimals(_, _, _, _)
Decimals(whole, rest, unit, decimals) ==
    IF decimals = 0 THEN <<whole, rest>>
    ELSE Decimals(10 * whole + (10 * rest) \div unit, (10 * rest) % unit,
                  unit, decimals - 1)

\* strconv.FormatFloat(float64(dur)/float64(unit), 'f', decimals, 64): the
\* decimal string, held as its sign and its digits scaled by 10^decimals.
\* The digits are those of the float64 quotient rounded to `decimals` places
\* (half to even): off a decimal tie that is the rounding of the exact
\* quotient, on a decimal tie the float64's own rounding error decides
durToString(dur, unit, decimals) ==
    LET a == Abs(dur)
        cut == Decimals(a \div unit, a % unit, unit, decimals)
        durUnit == Float64Rounding(a, unit)
        up == \/ 2 * cut[2] > unit
              \/ /\ 2 * cut[2] = unit
                 /\ durUnit = 1 \/ (durUnit = 0 /\ cut[1] % 2 = 1)
    IN  [neg |-> dur < 0, digits |-> IF up THEN cut[1] + 1 ELSE cut[1]]

\* time.Now(), dt after the previous reading of the clock
TimeNow(dt) == now + dt
Elapsed == {dt \in {0, 1} : now + dt <= MaxTime}

\* mutant: the entry is left in the map
MapDelete_Keep(m, k) == m

\* delete(m, k)
MapDelete(m, k) == [x \in DOMAIN m \ {k} |-> m[x]]
\* mutant: storing an entry drops the older entries of the map
MapPut_Fresh(m, k, v) == [x \in {k} |-> v]

\* m[k] = v
MapPut(m, k, v) == [x \in DOMAIN m \cup {k} |-> IF x = k THEN v ELSE m[x]]
EmptyMap == [x \in {} |-> 0]

\* mutant: the round-robin starts at the second target
PingerId_Shift(k, l) == (k + 1) % l

\* Pinger: id := int(i % l)
PingerId(k, l) == k % l

\* mutant: the sequence number is taken modulo the number of targets
PingerSeq_Mod(k, l) == k % l

\* Pinger: seq := int(i / l)
PingerSeq(k, l) == k \div l

Init ==
    /\ mainPc = "wait_conn"
    /\ u = 1
    /\ ipAddrs = <<>>
    /\ mainReq = NoReq
    /\ requests = <<>>
    /\ results = <<>>
    /\ mins = <<>>
    /\ maxs = <<>>
    /\ tots = <<>>
    /\ cnts = <<>>
    /\ totalPings = -1
    /\ lisPc = "listen"
    /\ lisRes = NoRes
    /\ sockOpen = FALSE
    /\ net = {}
    /\ faults = 0
    /\ pingerPc = "idle"
    /\ i = 0
    /\ tasks = {}
    /\ quitPc = "idle"
    /\ quitLeft = 0
    /\ now = 0
    /\ dispatched = <<>>
    /\ recorded = {}
    /\ outcome = Notice("none", 0, FALSE)
    /\ matched = 0
    /\ oob = FALSE
    /\ quitGot = [c \in Consumers |-> 0]
    /\ lisEnd = "none"


\* ------------------------------------------------------------- the quit
\* positions of the stdin task: "idle" (not started), "stdin" (blocked in
\* os.Stdin.Read), "run" (runnable, its next statement is a quit send), "send"
\* (parked on a quit send), "done" (returned)

\* one receive from the unbuffered quit channel by consumer c: it takes the
\* value of the parked sender and makes the stdin task runnable again; the
\* task parks on its next send only when it runs (QuitSend)
QuitRecv(c) ==
    /\ quitPc = "send"
    /\ quitLeft' = quitLeft - 1
    /\ quitPc' = IF quitLeft = 1 THEN "done" ELSE "run"
    /\ quitGot' = [quitGot EXCEPT ![c] = @ + 1]

\* os.Stdin.Read returns with b[0] == 'q'
QuitKey ==
    /\ ~Exited
    /\ quitPc = "stdin"
    /\ quitPc' = "run"
    /\ quitLeft' = QuitSends
    /\ UNCHANGED <<mainVars, lisPc, lisRes, sockOpen, net, faults, pingerPc,
                   i, tasks, now, obsVars>>

\* the stdin task reaches its next `quit <- struct{}{}` and parks on it
QuitSend ==
    /\ ~Exited
    /\ quitPc = "run"
    /\ quitPc' = "send"
    /\ UNCHANGED <<mainVars, lisPc, lisRes, sockOpen, net, faults, pingerPc,
                   i, tasks, quitLeft, now, obsVars>>

\* ------------------------------------------------------------- Listener
\* icmp.ListenPacket succeeded and main took the PacketConn from conn
ListenerReady ==
    /\ lisPc = "listen"
    /\ mainPc = "wait_conn"
    /\ lisPc' = "read"
    /\ sockOpen' = TRUE
    /\ mainPc' = "resolve"
    /\ UNCHANGED <<u, ipAddrs, mainReq, tableVars, totalPings, lisRes, net,
                   faults, pingerPc, i, tasks, quitPc, quitLeft, now,
                   obsVars>>

\* icmp.ListenPacket failed: log.Fatal
ListenerFatal ==
    /\ lisPc = "listen"
    /\ mainPc = "wait_conn"
    /\ lisPc' = "stopped"
    /\ lisEnd' = "fatal"
    /\ mainPc' = "fatal"
    /\ UNCHANGED <<u, ipAddrs, mainReq, tableVars, totalPings, lisRes,
                   sockOpen, net, faults, pingerPc, i, tasks, quitPc,
                   quitLeft, now, dispatched, recorded, outcome, matched,
                   oob, quitGot>>

\* ReadFrom returned datagram d; endTime := time.Now(); ParseMessage; switch
\* (a datagram that does not parse: print the error and return, which leaves
\* the deferred Close to run)
ListenerRead(d, dt) ==
    /\ ~Exited
    /\ lisPc = "read"
    /\ d \in net
    /\ dt \in Elapsed
    /\ now' = TimeNow(dt)
    /\ net' = net \ {d}
    /\ CASE d.kind = "bad" ->
              /\ lisPc' = "close"
              /\ lisEnd' = "parse"
              /\ UNCHANGED <<sockOpen, lisRes>>
         [] d.kind = "other" ->
              /\ lisPc' = "poll"
              /\ UNCHANGED <<sockOpen, lisRes, lisEnd>>
         [] d.kind = "reply" ->
              /\ lisPc' = "send"
              /\ lisRes' = [id |-> d.id, seq |-> d.seq, endTime |-> now',
                            src |-> d.src, oid |-> d.oid, oseq |-> d.oseq,
                            url |-> d.url]
              /\ UNCHANGED <<sockOpen, lisEnd>>
    /\ UNCHANGED <<mainVars, faults, pingerPc, i, tasks, quitPc, quitLeft,
                   dispatched, recorded, outcome, matched, oob, quitGot>>

\* ReadFrom returned an error: print it and return, which leaves the deferred
\* Close to run
ListenerReadError ==
    /\ ~Exited
    /\ lisPc = "read"
    /\ faults < MaxFaults
    /\ faults' = faults + 1
    /\ lisPc' = "close"
    /\ lisEnd' = "read"
    /\ UNCHANGED <<mainVars, lisRes, sockOpen, net, pingerPc, i, tasks, quitPc,
                   quitLeft, now, dispatched, recorded, outcome, matched,
                   oob, quitGot>>

\* select { case <-quit: return; default: }: the receive releases the stdin
\* task; the return leaves the deferred Close to run
ListenerPoll ==
    /\ ~Exited
    /\ lisPc = "poll"
    /\ IF quitPc = "send"
       THEN /\ QuitRecv("listener")
            /\ lisPc' = "close"
            /\ lisEnd' = "quit"
            /\ UNCHANGED <<dispatched, recorded, outcome, matched, oob>>
       ELSE /\ lisPc' = "read"
            /\ UNCHANGED <<quitPc, quitLeft, obsVars>>
    /\ UNCHANGED <<mainVars, lisRes, sockOpen, net, faults, pingerPc, i, tasks,
                   now>>

\* defer c.Close(): Listener has returned and its deferred call closes the
\* socket
ListenerClose ==
    /\ ~Exited
    /\ lisPc = "close"
    /\ lisPc' = "stopped"
    /\ sockOpen' = FALSE
    /\ UNCHANGED <<mainVars, lisRes, net, faults, pingerPc, i, tasks, quitPc,
                   quitLeft, now, obsVars>>

\* ------------------------------------------------------- Ping and Pinger
NewTask(id, seq, url) == [id |-> id, seq |-> seq, url |-> url, pc |-> "notify"]
Moved(t, pc) == [t EXCEPT !.pc = pc]

\* the echo reply to the probe of task t
ReplyTo(t) ==
    [kind |-> "reply", id |-> Wire(t.id), seq |-> Wire(t.seq),
     src |-> IF t.url = 0 THEN "sweep" ELSE "warm",
     oid |-> t.id, oseq |-> t.seq, url |-> t.url, copy |-> 0]

\* the outcomes of a write that are no fault of the environment: the target
\* replies, or the socket is closed and the write fails
WriteFree(how) ==
    \/ how = "replied" /\ sockOpen
    \/ how = "failed" /\ ~sockOpen

\* mutant: a Ping task whose write failed deletes its pending entry itself
TaskWrite_Deletes(t, how) ==
    /\ ~Exited
    /\ t \in tasks
    /\ t.pc = "write"
    /\ how \in {"replied", "lost", "failed"}
    /\ \/ WriteFree(how)
       \/ how # "replied" /\ sockOpen /\ faults < MaxFaults
    /\ CASE how = "replied" ->
              /\ tasks' = tasks \ {t}
              /\ net' = net \cup {ReplyTo(t)}
              /\ requests' = requests
         [] how = "lost" ->
              /\ tasks' = tasks \ {t}
              /\ net' = net
              /\ requests' = requests
         [] how = "failed" ->
              /\ tasks' = (tasks \ {t}) \cup {Moved(t, "fail")}
              /\ net' = net
              /\ requests' = IF t.id \in DOMAIN requests
                              THEN [requests EXCEPT ![t.id] = MapDelete(@, t.seq)]
                              ELSE requests
    /\ faults' = IF WriteFree(how) THEN faults ELSE faults + 1
    /\ UNCHANGED <<mainPc, u, ipAddrs, mainReq, results, mins, maxs, tots,
                   cnts, totalPings, lisPc, lisRes, sockOpen, pingerPc, i,
                   quitPc, quitLeft, now, obsVars>>

\* conn.WriteTo(b, ipAddr) in Ping: "replied" and "lost" are a full write,
\* "failed" is an error or a short write; a closed socket fails every write
TaskWrite(t, how) ==
    /\ ~Exited
    /\ t \in tasks
    /\ t.pc = "write"
    /\ how \in {"replied", "lost", "failed"}
    /\ \/ WriteFree(how)
       \/ how # "replied" /\ sockOpen /\ faults < MaxFaults
    /\ CASE how = "replied" ->
              /\ tasks' = tasks \ {t}
              /\ net' = net \cup {ReplyTo(t)}
         [] how = "lost" ->
              /\ tasks' = tasks \ {t}
              /\ net' = net
         [] how = "failed" ->
              /\ tasks' = (tasks \ {t}) \cup {Moved(t, "fail")}
              /\ net' = net
    /\ faults' = IF WriteFree(how) THEN faults ELSE faults + 1
    /\ UNCHANGED <<mainVars, lisPc, lisRes, sockOpen, pingerPc, i, quitPc,
                   quitLeft, now, obsVars>>

\* Pinger: compute id and seq, go Ping(...), then time.Sleep
PingerDispatch ==
    /\ ~Exited
    /\ pingerPc = "dispatch"
    /\ i < MaxSweep
    /\ LET id == PingerId(i, ipCount)
           seq == PingerSeq(i, ipCount)
       IN  /\ tasks' = tasks \cup {NewTask(id, seq, 0)}
           /\ dispatched' = Append(dispatched, <<id, seq>>)
    /\ pingerPc' = "poll"
    /\ UNCHANGED <<mainVars, lisPc, lisRes, sockOpen, net, faults, i, quitPc,
                   quitLeft, now, recorded, outcome, matched, oob, quitGot,
                   lisEnd>>

\* Pinger after the sleep: i += 1; select { case <-quit: return; default: }
PingerPoll ==
    /\ ~Exited
    /\ pingerPc = "poll"
    /\ i' = i + 1
    /\ IF quitPc = "send"
       THEN /\ QuitRecv("pinger")
            /\ pingerPc' = "stopped"
            /\ UNCHANGED <<dispatched, recorded, outcome, matched, oob,
                           lisEnd>>
       ELSE /\ pingerPc' = "dispatch"
            /\ UNCHANGED <<quitPc, quitLeft, obsVars>>
    /\ UNCHANGED <<mainVars, lisPc, lisRes, sockOpen, net, faults, tasks,
                   now>>

\* ------------------------------------------------------------ environment
\* the network delivers a second copy of a reply
NetDuplicate(d) ==
    /\ ~Exited
    /\ faults < MaxFaults
    /\ d \in net
    /\ d.kind = "reply"
    /\ d.copy = 0
    /\ net' = net \cup {[d EXCEPT !.copy = 1]}
    /\ faults' = faults + 1
    /\ UNCHANGED <<mainVars, lisPc, lisRes, sockOpen, pingerPc, i, tasks,
                   quitPc, quitLeft, now, obsVars>>

ForeignKinds == {"reply", "other", "bad"}
ForeignIds == {0, MaxUrls}
ForeignSeqs == {0}

\* an ICMP datagram that answers no probe of this process reaches the socket
NetForeign(kind, id, seq) ==
    /\ ~Exited
    /\ sockOpen
    /\ faults < MaxFaults
    /\ kind \in ForeignKinds
    /\ id \in ForeignIds
    /\ seq \in ForeignSeqs
    /\ kind # "reply" => id = 0 /\ seq = 0
    /\ net' = net \cup {[kind |-> kind, id |-> id, seq |-> seq,
                         src |-> "foreign", oid |-> -1, oseq |-> -1,
                         url |-> -1, copy |-> 0]}
    /\ faults' = faults + 1
    /\ UNCHANGED <<mainVars, lisPc, lisRes, sockOpen, pingerPc, i, tasks,
                   quitPc, quitLeft, now, obsVars>>


\* ------------------------------------------------------- main: warm-up
RECURSIVE TotalPings(_, _)
\* at quit: totalPings += len(v) for every row v of results (targets 0..n-1)
TotalPings(rows, n) ==
    IF n = 0 THEN 0 ELSE Len(rows[n - 1]) + TotalPings(rows, n - 1)

\* mutant: the check for an empty list is missing, the tables are made and
\* the Pinger is started whatever survived
MainNextUrl_NoCheck(addrs) ==
    /\ ipAddrs' = addrs
    /\ IF u < MaxUrls
       THEN /\ u' = u + 1
            /\ mainPc' = "resolve"
            /\ UNCHANGED <<tableVars, pingerPc, quitPc>>
       ELSE /\ u' = u
            /\ mainPc' = "select"
            /\ requests' = [t \in 0..(Len(addrs) - 1) |-> EmptyMap]
            /\ results' = [t \in 0..(Len(addrs) - 1) |->
                              <<[url |-> addrs[t + 1]],
                                [addr |-> addrs[t + 1]]>>]
            /\ mins' = [t \in 0..(Len(addrs) - 1) |-> MaxDuration]
            /\ maxs' = [t \in 0..(Len(addrs) - 1) |-> MinDuration]
            /\ tots' = [t \in 0..(Len(addrs) - 1) |-> 0]
            /\ cnts' = [t \in 0..(Len(addrs) - 1) |-> 0]
            /\ pingerPc' = "dispatch"
            /\ quitPc' = "stdin"

\* main after the warm-up loop body of url u, with addrs the surviving urls:
\* the next url, or the code after the loop (ipCount check, the tables,
\* go Pinger, the stdin task)
MainNextUrl(addrs) ==
    /\ ipAddrs' = addrs
    /\ IF u < MaxUrls
       THEN /\ u' = u + 1
            /\ mainPc' = "resolve"
            /\ UNCHANGED <<tableVars, pingerPc, quitPc>>
       ELSE /\ u' = u
            /\ IF Len(addrs) = 0
               THEN /\ mainPc' = "fatal"
                    /\ UNCHANGED <<tableVars, pingerPc, quitPc>>
               ELSE /\ mainPc' = "select"
                    /\ requests' = [t \in 0..(Len(addrs) - 1) |-> EmptyMap]
                    /\ results' = [t \in 0..(Len(addrs) - 1) |->
                                      <<[url |-> addrs[t + 1]],
                                        [addr |-> addrs[t + 1]]>>]
                    /\ mins' = [t \in 0..(Len(addrs) - 1) |-> MaxDuration]
                    /\ maxs' = [t \in 0..(Len(addrs) - 1) |-> MinDuration]
                    /\ tots' = [t \in 0..(Len(addrs) - 1) |-> 0]
                    /\ cnts' = [t \in 0..(Len(addrs) - 1) |-> 0]
                    /\ pingerPc' = "dispatch"
                    /\ quitPc' = "stdin"

\* mutant: main does not wait for the PacketConn before its warm-up loop
MainResolve_Early(ok) ==
    /\ mainPc \in {"wait_conn", "resolve"}
    /\ ok \in BOOLEAN
    /\ IF ok
       THEN /\ tasks' = tasks \cup {NewTask(0, 0, u)}
            /\ mainPc' = "warm_req"
            /\ UNCHANGED <<u, ipAddrs, tableVars, pingerPc, quitPc>>
            /\ faults' = faults
       ELSE /\ faults < MaxFaults
            /\ faults' = faults + 1
            /\ MainNextUrl(ipAddrs)
            /\ tasks' = tasks
    /\ UNCHANGED <<mainReq, totalPings, lisPc, lisRes, sockOpen, net, i,
                   quitLeft, now, obsVars>>

\* net.ResolveIPAddr for url u; on success go Ping(conn, ip, 0, 0, ...)
MainResolve(ok) ==
    /\ mainPc = "resolve"
    /\ ok \in BOOLEAN
    /\ IF ok
       THEN /\ tasks' = tasks \cup {NewTask(0, 0, u)}
            /\ mainPc' = "warm_req"
            /\ UNCHANGED <<u, ipAddrs, tableVars, pingerPc, quitPc>>
            /\ faults' = faults
       ELSE /\ faults < MaxFaults
            /\ faults' = faults + 1
            /\ MainNextUrl(ipAddrs)
            /\ tasks' = tasks
    /\ UNCHANGED <<mainReq, totalPings, lisPc, lisRes, sockOpen, net, i,
                   quitLeft, now, obsVars>>

\* warm-up: <-requestReceiver, the other end being Ping's requests <- Request
MainWarmRequest(t) ==
    /\ mainPc = "warm_req"
    /\ t \in tasks
    /\ t.pc = "notify"
    /\ tasks' = (tasks \ {t}) \cup {Moved(t, "write")}
    /\ mainPc' = "warm_sel"
    /\ UNCHANGED <<u, ipAddrs, mainReq, tableVars, totalPings, lisPc, lisRes,
                   sockOpen, net, faults, pingerPc, i, quitPc, quitLeft, now,
                   obsVars>>

\* warm-up select, case <-resultReceiver: url u joins the sweep
MainWarmResult ==
    /\ mainPc = "warm_sel"
    /\ lisPc = "send"
    /\ lisPc' = "poll"
    /\ lisRes' = NoRes
    /\ MainNextUrl(Append(ipAddrs, u))
    /\ UNCHANGED <<mainReq, totalPings, sockOpen, net, faults, i, tasks,
                   quitLeft, now, obsVars>>

\* warm-up select, case e := <-errorReceiver: url u is dropped
MainWarmError(t) ==
    /\ mainPc = "warm_sel"
    /\ t \in tasks
    /\ t.pc = "fail"
    /\ tasks' = tasks \ {t}
    /\ MainNextUrl(ipAddrs)
    /\ UNCHANGED <<mainReq, totalPings, lisPc, lisRes, sockOpen, net, faults,
                   i, quitLeft, now, obsVars>>

\* --------------------------------------------------- main: the select loop
\* mutant: requestReceiver is buffered, Ping's send completes and the notice
\* waits in the buffer
MainRecvRequest_Buffered(t) ==
    /\ mainPc = "select"
    /\ t \in tasks
    /\ t.pc = "notify"
    /\ tasks' = (tasks \ {t}) \cup {Moved(t, "write")}
    /\ UNCHANGED <<mainVars, lisPc, lisRes, sockOpen, net, faults, pingerPc,
                   i, quitPc, quitLeft, now, obsVars>>

\* case req := <-requestReceiver (the receive; the body is MainStamp)
MainRecvRequest(t) ==
    /\ mainPc = "select"
    /\ t \in tasks
    /\ t.pc = "notify"
    /\ tasks' = (tasks \ {t}) \cup {Moved(t, "write")}
    /\ mainReq' = [id |-> t.id, seq |-> t.seq]
    /\ mainPc' = "stamp"
    /\ UNCHANGED <<u, ipAddrs, tableVars, totalPings, lisPc, lisRes, sockOpen,
                   net, faults, pingerPc, i, quitPc, quitLeft, now, obsVars>>

\* indexing a slice out of range: the runtime panics
Panic ==
    /\ oob' = TRUE
    /\ mainPc' = "panic"

\* mutant: the case body never returns to the select
MainStamp_Blocks(dt) ==
    /\ mainPc = "stamp"
    /\ dt \in Elapsed
    /\ now' = TimeNow(dt)
    /\ IF Indexable(mainReq.id)
       THEN /\ requests' = [requests EXCEPT ![mainReq.id] =
                                MapPut(@, mainReq.seq, now')]
            /\ recorded' = recorded \cup {<<mainReq.id, mainReq.seq>>}
            /\ UNCHANGED <<mainPc, mainReq, oob>>
       ELSE Panic /\ UNCHANGED <<requests, recorded, mainReq>>
    /\ UNCHANGED <<u, ipAddrs, results, mins, maxs, tots, cnts, totalPings,
                   lisPc, lisRes, sockOpen, net, faults, pingerPc, i, tasks,
                   quitPc, quitLeft, dispatched, outcome, matched, quitGot,
                   lisEnd>>

\* requests[req.id][req.seq] = time.Now()
MainStamp(dt) ==
    /\ mainPc = "stamp"
    /\ dt \in Elapsed
    /\ now' = TimeNow(dt)
    /\ mainReq' = NoReq
    /\ IF Indexable(mainReq.id)
       THEN /\ requests' = [requests EXCEPT ![mainReq.id] =
                                MapPut(@, mainReq.seq, now')]
            /\ recorded' = recorded \cup {<<mainReq.id, mainReq.seq>>}
            /\ mainPc' = "select"
            /\ oob' = oob
       ELSE Panic /\ UNCHANGED <<requests, recorded>>
    /\ UNCHANGED <<u, ipAddrs, results, mins, maxs, tots, cnts, totalPings,
                   lisPc, lisRes, sockOpen, net, faults, pingerPc, i, tasks,
                   quitPc, quitLeft, dispatched, outcome, matched, quitGot,
                   lisEnd>>

\* the pending entry of res is present: start, ok := requests[res.id][res.seq]
Pending(id, seq) == seq \in DOMAIN requests[id]

\* res answers the sweep probe dispatched with the id and seq it carries
Own(res) == res.src = "sweep" /\ res.oid = res.id /\ res.oseq = res.seq

\* if res.id < 0 || res.id >= ipCount: printError("Received invalid id"); continue
RejectResult(res) ==
    /\ outcome' = Notice("invalid", 0, FALSE)
    /\ UNCHANGED <<mainPc, tableVars, matched, oob>>

\* mutant: a reply without a pending entry is recorded as a sample all the
\* same
Unsolicited_Appends(res) ==
    /\ results' = [results EXCEPT ![res.id] =
                       Append(@, durToString(0, Millisecond, SampleDecimals))]
    /\ cnts' = [cnts EXCEPT ![res.id] = @ + 1]
    /\ outcome' = Notice("matched", 0, FALSE)
    /\ matched' = matched + 1
    /\ UNCHANGED <<mainPc, requests, mins, maxs, tots, oob>>

\* mutant: the reply is counted before the lookup's ok is tested
Unsolicited_Counts(res) ==
    /\ outcome' = Notice("unsolicited", 0, FALSE)
    /\ cnts' = [cnts EXCEPT ![res.id] = @ + 1]
    /\ UNCHANGED <<mainPc, requests, results, mins, maxs, tots, matched, oob>>

\* if !ok: printError("Response received without a corresponding request");
\* continue
Unsolicited(res) ==
    /\ outcome' = Notice("unsolicited", 0, FALSE)
    /\ UNCHANGED <<mainPc, tableVars, matched, oob>>

\* mutant: the sample is appended and cnts is not incremented
Matched_NoCount(res) ==
    LET start == requests[res.id][res.seq]
        dur == res.endTime - start
        durMsStr == durToString(dur, Millisecond, SampleDecimals)
    IN  /\ requests' = [requests EXCEPT ![res.id] = MapDelete(@, res.seq)]
        /\ results' = [results EXCEPT ![res.id] = Append(@, durMsStr)]
        /\ mins' = [mins EXCEPT ![res.id] = IF dur < @ THEN dur ELSE @]
        /\ maxs' = [maxs EXCEPT ![res.id] = IF dur > @ THEN dur ELSE @]
        /\ tots' = [tots EXCEPT ![res.id] = @ + dur]
        /\ cnts' = cnts
        /\ outcome' = Notice("matched", dur, Own(res))
        /\ matched' = matched + 1
        /\ UNCHANGED <<mainPc, oob>>

\* the rest of the case: delete the entry, append the sample, update the stats
Matched(res) ==
    LET start == requests[res.id][res.seq]
        dur == res.endTime - start
        durMsStr == durToString(dur, Millisecond, SampleDecimals)
    IN  /\ requests' = [requests EXCEPT ![res.id] = MapDelete(@, res.seq)]
        /\ results' = [results EXCEPT ![res.id] = Append(@, durMsStr)]
        /\ mins' = [mins EXCEPT ![res.id] = IF dur < @ THEN dur ELSE @]
        /\ maxs' = [maxs EXCEPT ![res.id] = IF dur > @ THEN dur ELSE @]
        /\ tots' = [tots EXCEPT ![res.id] = @ + dur]
        /\ cnts' = [cnts EXCEPT ![res.id] = @ + 1]
        /\ outcome' = Notice("matched", dur, Own(res))
        /\ matched' = matched + 1
        /\ UNCHANGED <<mainPc, oob>>

\* case res := <-resultReceiver, the whole case body
MainRecvResult ==
    /\ mainPc = "select"
    /\ lisPc = "send"
    /\ lisPc' = "poll"
    /\ lisRes' = NoRes
    /\ IF ~InRange(lisRes.id) THEN RejectResult(lisRes)
       ELSE IF ~Indexable(lisRes.id)
            THEN Panic /\ UNCHANGED <<tableVars, matched, outcome>>
       ELSE IF ~Pending(lisRes.id, lisRes.seq) THEN Unsolicited(lisRes)
       ELSE Matched(lisRes)
    /\ UNCHANGED <<u, ipAddrs, mainReq, totalPings, sockOpen, net, faults,
                   pingerPc, i, tasks, quitPc, quitLeft, now, dispatched,
                   recorded, quitGot, lisEnd>>

\* mutant: the Error is reported and the pending entry is left in the table
MainRecvError_Keeps(t) ==
    /\ mainPc = "select"
    /\ t \in tasks
    /\ t.pc = "fail"
    /\ tasks' = tasks \ {t}
    /\ outcome' = Notice("failed", 0, FALSE)
    /\ UNCHANGED <<mainPc, u, ipAddrs, mainReq, tableVars, totalPings, lisPc,
                   lisRes, sockOpen, net, faults, pingerPc, i, quitPc,
                   quitLeft, now, dispatched, recorded, matched, oob, quitGot,
                   lisEnd>>

\* case e := <-errorReceiver, the other end being Ping's errors <- Error
MainRecvError(t) ==
    /\ mainPc = "select"
    /\ t \in tasks
    /\ t.pc = "fail"
    /\ tasks' = tasks \ {t}
    /\ IF InRange(t.id)
       THEN IF Indexable(t.id)
            THEN /\ requests' = [requests EXCEPT ![t.id] = MapDelete(@, t.seq)]
                 /\ outcome' = Notice("failed", 0, FALSE)
                 /\ UNCHANGED <<mainPc, oob>>
            ELSE Panic /\ UNCHANGED <<requests, outcome>>
       ELSE /\ outcome' = Notice("failed", 0, FALSE)
            /\ UNCHANGED <<mainPc, requests, oob>>
    /\ UNCHANGED <<u, ipAddrs, mainReq, results, mins, maxs, tots, cnts,
                   totalPings, lisPc, lisRes, sockOpen, net, faults,
                   pingerPc, i, quitPc, quitLeft, now, dispatched, recorded,
                   matched, quitGot, lisEnd>>

\* case <-quit: the receive, which releases the stdin task
MainRecvQuit ==
    /\ mainPc = "select"
    /\ QuitRecv("main")
    /\ mainPc' = "summary"
    /\ UNCHANGED <<u, ipAddrs, mainReq, tableVars, totalPings, lisPc, lisRes,
                   sockOpen, net, faults, pingerPc, i, tasks, now, dispatched,
                   recorded, outcome, matched, oob, lisEnd>>

\* the body of the quit case: count the rows, print the summary, write the
\* rows, return: the process ends
MainReturn ==
    /\ mainPc = "summary"
    /\ totalPings' = TotalPings(results, ipCount)
    /\ mainPc' = "done"
    /\ outcome' = Notice("quit", 0, FALSE)
    /\ UNCHANGED <<u, ipAddrs, mainReq, tableVars, lisPc, lisRes, sockOpen,
                   net, faults, pingerPc, i, tasks, quitPc, quitLeft, now,
                   dispatched, recorded, matched, oob, quitGot, lisEnd>>

\* ------------------------------------------------------------------ Next
Next ==
    \/ ListenerReady
    \/ ListenerFatal
    \/ \E d \in net, dt \in {0, 1} : ListenerRead(d, dt)
    \/ ListenerReadError
    \/ ListenerPoll
    \/ ListenerClose
    \/ \E ok \in BOOLEAN : MainResolve(ok)
    \/ \E t \in tasks : MainWarmRequest(t)
    \/ MainWarmResult
    \/ \E t \in tasks : MainWarmError(t)
    \/ \E t \in tasks : MainRecvRequest(t)
    \/ \E dt \in {0, 1} : MainStamp(dt)
    \/ MainRecvResult
    \/ \E t \in tasks : MainRecvError(t)
    \/ MainRecvQuit
    \/ MainReturn
    \/ PingerDispatch
    \/ PingerPoll
    \/ \E t \in tasks, how \in {"replied", "lost", "failed"} : TaskWrite(t, how)
    \/ QuitKey
    \/ QuitSend
    \/ \E d \in net : NetDuplicate(d)
    \/ \E k \in ForeignKinds, id \in ForeignIds, seq \in ForeignSeqs :
           NetForeign(k, id, seq)

Spec == Init /\ [][Next]_vars

\* ------------------------------------------------------------- scheduling
\* the steps of each goroutine that need nothing from the environment but the
\* processor
ListenerRun ==
    \/ ListenerReady
    \/ ListenerFatal
    \/ \E d \in net, dt \in {0, 1} : ListenerRead(d, dt)
    \/ ListenerPoll
    \/ ListenerClose
PingerRun == PingerDispatch \/ PingerPoll
PingRun == \E t \in tasks, how \in {"replied", "lost", "failed"} : TaskWrite(t, how)
MainRun ==
    \/ \E ok \in BOOLEAN : MainResolve(ok)
    \/ \E t \in tasks : MainWarmRequest(t)
    \/ MainWarmResult
    \/ \E t \in tasks : MainWarmError(t)
    \/ \E dt \in {0, 1} : MainStamp(dt)
    \/ MainReturn

\* the Go scheduler runs every runnable goroutine, and a select with several
\* ready cases picks one of them at random, so a case that is ready again and
\* again is taken; the stdin task, once it has read 'q', runs on to its next
\* quit send; the quit key and the faults of the environment are owed
\* to nobody.  The steps owed are those of StillNext, in which the clock
\* reads the same.
Fairness ==
    /\ WF_vars(ListenerRun /\ now' = now)
    /\ WF_vars(PingerRun)
    /\ WF_vars(PingRun)
    /\ WF_vars(QuitSend)
    /\ WF_vars(MainRun /\ now' = now)
    /\ SF_vars(\E t \in tasks : MainRecvRequest(t))
    /\ SF_vars(MainRecvResult)
    /\ SF_vars(\E t \in tasks : MainRecvError(t))
    /\ SF_vars(MainRecvQuit)

\* Next with a clock too coarse to tell two readings apart: every time.Now()
\* returns the same instant
StillNext ==
    \/ ListenerReady
    \/ ListenerFatal
    \/ \E d \in net : ListenerRead(d, 0)
    \/ ListenerReadError
    \/ ListenerPoll
    \/ ListenerClose
    \/ \E ok \in BOOLEAN : MainResolve(ok)
    \/ \E t \in tasks : MainWarmRequest(t)
    \/ MainWarmResult
    \/ \E t \in tasks : MainWarmError(t)
    \/ \E t \in tasks : MainRecvRequest(t)
    \/ MainStamp(0)
    \/ MainRecvResult
    \/ \E t \in tasks : MainRecvError(t)
    \/ MainRecvQuit
    \/ MainReturn
    \/ PingerDispatch
    \/ PingerPoll
    \/ \E t \in tasks, how \in {"replied", "lost", "failed"} : TaskWrite(t, how)
    \/ QuitKey
    \/ QuitSend
    \/ \E d \in net : NetDuplicate(d)
    \/ \E k \in ForeignKinds, id \in ForeignIds, seq \in ForeignSeqs :
           NetForeign(k, id, seq)

\* the program under the scheduling above
FairSpec == Init /\ [][StillNext]_vars /\ Fairness

\* the part of Fairness that the handling of an Error rests on: main runs on
\* from a receive to its select, and takes the error case when it is ready
\* again and again
ErrorFairness ==
    /\ WF_vars(MainRun /\ now' = now)
    /\ SF_vars(\E t \in tasks : MainRecvError(t))
ErrorFairSpec == Init /\ [][StillNext]_vars /\ ErrorFairness

\* the part of Fairness that the service of the senders rests on: the Pinger
\* and main run, and main takes each of the three sending cases of its select
\* when it is ready again and again
ServiceFairness ==
    /\ WF_vars(PingerRun)
    /\ WF_vars(MainRun /\ now' = now)
    /\ SF_vars(\E t \in tasks : MainRecvRequest(t))
    /\ SF_vars(MainRecvResult)
    /\ SF_vars(\E t \in tasks : MainRecvError(t))
ServiceFairSpec == Init /\ [][StillNext]_vars /\ ServiceFairness


\* ================================================================ claims
Targets == 0..(ipCount - 1)
\* main is in its select loop
Sweeping == mainPc \in {"select", "stamp"}
\* this step is main taking a Result with id t and seq s from resultReceiver
ReplyEvent(t, s) ==
    /\ mainPc = "select"
    /\ lisPc = "send"
    /\ lisPc' = "poll"
    /\ lisRes.id = t
    /\ lisRes.seq = s

\* C1: whenever main's loop can take the reply to a sweep probe from
\* resultReceiver, the new-pending notice of that probe's (id, seq) has been
\* stored: no reply to a sweep probe is processed before its notice.
C1_NoticeBeforeReply ==
    (mainPc = "select" /\ lisPc = "send" /\ lisRes.src = "sweep")
        => <<lisRes.oid, lisRes.oseq>> \in recorded

\* the reply to a probe reached Listener while main has received that probe's
\* notice and has not stored it yet
C1_Witness ==
    /\ mainPc = "stamp"
    /\ lisPc = "send"
    /\ lisRes.src = "sweep"
    /\ mainReq = [id |-> lisRes.oid, seq |-> lisRes.oseq]

\* C2: in the select loop a sample is appended to target t's row exactly in
\* the steps that process a reply event with id t and a seq whose pending
\* entry is present, and such a step removes that entry and appends the
\* duration computed from it.
C2_MatchedIffPending ==
    [][Sweeping =>
         \A t \in Targets :
           /\ (results'[t] # results[t])
                <=> (\E s \in DOMAIN requests[t] : ReplyEvent(t, s))
           /\ \A s \in DOMAIN requests[t] :
                ReplyEvent(t, s) =>
                  /\ s \notin DOMAIN requests'[t]
                  /\ results'[t] =
                       Append(results[t],
                              durToString(lisRes.endTime - requests[t][s],
                                          Millisecond, SampleDecimals))]_vars

\* a reply was matched, and a second pending entry of the same target stayed
C2_Witness ==
    /\ outcome.kind = "matched"
    /\ \E t \in Targets : Len(results[t]) > RowHeader /\ requests[t] # EmptyMap

\* C3: no new-pending notice arrives for a key whose entry is in the table:
\* neither the notice main is about to store nor the notice a Ping task of the
\* sweep is about to send names a pending key (the table being a map per
\* target, it holds at most one entry per key).
C3_NoOverwrite ==
    /\ mainPc = "stamp" =>
         Indexable(mainReq.id) /\ ~Pending(mainReq.id, mainReq.seq)
    /\ \A t \in tasks :
         (t.url = 0 /\ t.pc = "notify") => ~Pending(t.id, t.seq)

\* a notice is being stored for a target that has an older entry pending
C3_Witness ==
    /\ mainPc = "stamp"
    /\ Indexable(mainReq.id)
    /\ requests[mainReq.id] # EmptyMap

\* C4: every Matched outcome has a non-negative duration; stated for the
\* matches of a sweep probe with its own reply, the case the claim is about.
C4_NonNegativeDuration ==
    (outcome.kind = "matched" /\ outcome.own) => outcome.dur >= 0

\* this step is main taking an unsolicited reply from resultReceiver
UnsolicitedEvent ==
    /\ mainPc = "select"
    /\ lisPc = "send"
    /\ lisPc' = "poll"
    /\ InRange(lisRes.id)
    /\ ~Pending(lisRes.id, lisRes.seq)

\* C5: processing an unsolicited reply (id in range, no pending entry) leaves
\* the pending table, the rows and the statistics unchanged, and main stays in
\* its select loop.
C5_UnsolicitedFrame ==
    [][UnsolicitedEvent => (UNCHANGED tableVars /\ mainPc' = "select")]_vars

\* an unsolicited reply was reported while a row holds a sample and an entry
\* is pending
C5_Witness ==
    /\ outcome.kind = "unsolicited"
    /\ \E t \in Targets : requests[t] # EmptyMap
    /\ \E t \in Targets : cnts[t] > 0

\* C6: no step indexes the pending table, the rows or the statistics outside
\* 0..ipCount-1: main never panics on an index.
C6_NoOutOfRangeAccess == ~oob /\ mainPc # "panic"

\* a reply with an id outside 0..ipCount-1 was rejected
C6_Witness == outcome.kind = "invalid" /\ mainPc = "select"

\* C7: the k-th dispatch of the Pinger (k = 0, 1, ...) carries id = k mod N and
\* seq = k div N, N the number of targets.
C7_RoundRobin ==
    \A k \in 1..Len(dispatched) :
        dispatched[k] = <<(k - 1) % ipCount, (k - 1) \div ipCount>>

\* two targets, and the round-robin came back to target 0 with seq 1
C7_Witness ==
    /\ ipCount = 2
    /\ Len(dispatched) >= 3
    /\ dispatched[3] = <<0, 1>>

\* C8: the figure of the final summary equals the number of Matched outcomes.
C8_TotalMatched == mainPc = "done" => totalPings = matched

\* C9: main does not finalize before the Pinger and the Listener have stopped
\* (the code has no grace timeout).
C9_WaitsForConsumers ==
    mainPc = "done" => (pingerPc = "stopped" /\ lisPc = "stopped")

\* C10: no consumer receives the quit signal twice, and when main finalizes
\* every consumer has received it once.
C10_ExactlyOnce ==
    /\ \A c \in Consumers : quitGot[c] <= 1
    /\ mainPc = "done" => \A c \in Consumers : quitGot[c] = 1

\* this step is main taking from errorReceiver the Error of a Ping task with
\* id t and seq s
FailureEvent(t, s) ==
    /\ mainPc = "select"
    /\ \E k \in tasks : k.pc = "fail" /\ k.id = t /\ k.seq = s /\ k \notin tasks'

\* C11: pending entries do not expire: in the select loop an entry leaves the
\* pending table only in a step that processes a reply event or a failure
\* event carrying its (id, seq), and while it stays its start time is kept.
C11_NoExpiry ==
    [][Sweeping =>
         \A t \in Targets : \A s \in DOMAIN requests[t] :
            IF s \in DOMAIN requests'[t]
            THEN requests'[t][s] = requests[t][s]
            ELSE ReplyEvent(t, s) \/ FailureEvent(t, s)]_vars

\* two targets and every probe dispatched: target 0 has a sample, the reply to
\* probe (1, 0) was lost, nothing for that key is on its way, and the entry
\* is still pending
C11_Witness ==
    /\ ipCount = 2
    /\ Len(dispatched) = MaxSweep
    /\ cnts[0] >= 1
    /\ cnts[1] = 0
    /\ Pending(1, 0)
    /\ \A k \in tasks : k.id # 1
    /\ \A d \in net : d.id # 1
    /\ lisRes.id # 1

\* this step is Listener taking from the socket a datagram that is not an
\* echo reply: one that does not parse, or another ICMP message
DiscardEvent ==
    /\ lisPc = "read"
    /\ \E d \in net : d.kind \in {"bad", "other"} /\ net' = net \ {d}

\* C12: a datagram that does not parse, or that is no echo reply, is dropped
\* and the receive loop keeps running: Listener goes on to its quit poll with
\* the socket as it was, so that later replies are still delivered.
C12_DiscardKeepsListening ==
    [][DiscardEvent => (lisPc' = "poll" /\ sockOpen' = sockOpen)]_vars

\* a quit signal has been raised: the stdin task is at, or past, its first
\* send on quit, the one channel on which the Pinger and main are told to stop
ShutdownRaised == quitPc \in {"run", "send", "done"}

\* every url answered its warm-up probe, and during the sweep Listener has
\* returned on a read error and its deferred Close has run
ReadErrorStopped ==
    ipCount = MaxUrls /\ lisEnd = "read" /\ lisPc = "stopped" /\ Sweeping

\* C13: a read error of the socket triggers the coordinated shutdown: once
\* Listener has returned on a read error during the sweep and a probe of the
\* sweep has failed on the socket it closed, the quit signal that stops the
\* Pinger and main has been raised, without the key having to be pressed.
C13_ReadErrorShutsDown ==
    (ReadErrorStopped /\ \E t \in tasks : t.url = 0 /\ t.pc = "fail")
        => ShutdownRaised

\* main is in its warm-up loop
WarmingUp == mainPc \in {"wait_conn", "resolve", "warm_req", "warm_sel"}

\* C15: the warm-up loop ends, whatever the outcome of each url's probe;
\* stated for the runs in which Listener does not return during warm-up, the
\* runs in which a probe has one of the claim's outcomes.
C15_WarmupTerminates == <>(~WarmingUp \/ lisEnd # "none")

\* C16: a url joins ipAddrs only when the Result main takes in the warm-up
\* select came from the reply to that url's own warm-up probe.
C16_OwnReplyAccepted ==
    [][(mainPc = "warm_sel" /\ ipAddrs' # ipAddrs)
          => (lisRes.src = "warm" /\ lisRes.url = u)]_vars

\* a Ping task of the sweep whose write failed and whose Error main has not
\* taken yet
FailedSends == {t \in tasks : t.url = 0 /\ t.pc = "fail"}

\* C14: the Error of a sweep probe whose write failed can be taken by main
\* only after that probe's notice was stored; the step that takes it removes
\* the pending entry of its (id, seq), reports Failed and leaves main in its
\* select loop and the Pinger where it was; and every such Error is taken in
\* the end, unless the process exits first.
C14_FailureClearsEntry ==
    /\ [](mainPc = "select" =>
            \A t \in FailedSends : <<t.id, t.seq>> \in recorded)
    /\ [][\A t \in FailedSends :
             (mainPc = "select" /\ t \notin tasks') =>
                /\ ~Pending(t.id, t.seq)'
                /\ outcome'.kind = "failed"
                /\ mainPc' = "select"
                /\ UNCHANGED <<pingerPc, i>>]_vars
    /\ []<>(FailedSends = {} \/ Exited)

\* with the socket open and no reply matched so far, a Failed notice was
\* printed, the entry of a stored notice is gone, and the notice of a later
\* probe is pending
C14_Witness ==
    /\ outcome.kind = "failed"
    /\ sockOpen
    /\ matched = 0
    /\ \A t \in tasks : t.url = 0
    /\ \E k \in recorded : ~Pending(k[1], k[2])
    /\ \E k \in recorded : Pending(k[1], k[2])

\* C17: the Pinger runs only with a non-empty list; main has left the
\* warm-up loop with an empty list only by log.Fatalf; and the targets swept
\* are the surviving urls in the order of the command line: ipAddrs is
\* increasing in the url index, row t is that of the (t+1)-th survivor, and
\* every dispatch names one of them.
C17_NoEmptySweep ==
    /\ pingerPc # "idle" => ipCount >= 1
    /\ (~WarmingUp /\ ipCount = 0) => mainPc = "fatal"
    /\ \A a, b \in 1..ipCount : a < b => ipAddrs[a] < ipAddrs[b]
    /\ \A k \in 1..Len(dispatched) : dispatched[k][1] \in Targets
    /\ (~WarmingUp /\ ipCount >= 1) =>
          /\ DOMAIN results = Targets
          /\ DOMAIN requests = Targets
          /\ \A t \in Targets : results[t][1].url = ipAddrs[t + 1]

\* the socket was opened, every url was tried, none survived, and main ended
\* by log.Fatalf without starting the Pinger
C17_Witness ==
    /\ mainPc = "fatal"
    /\ lisEnd # "fatal"
    /\ u = MaxUrls
    /\ ipCount = 0
    /\ pingerPc = "idle"

\* C18: Ping tasks, datagrams answering them and Results exist only after
\* Listener has opened the socket and main has taken it from conn: nothing is
\* written to the socket before the handshake.
C18_ReadyBeforeWrite ==
    (tasks # {} \/ net # {} \/ lisRes # NoRes \/ Len(dispatched) > 0)
        => (lisPc # "listen" /\ mainPc # "wait_conn")

\* the reply to a warm-up probe is on its way to the open socket
C18_Witness ==
    /\ sockOpen
    /\ mainPc = "warm_sel"
    /\ \E d \in net : d.src = "warm" /\ d.url = u

\* in every target's statistics cnts is the number of samples of its row, and
\* the smallest sample is not above the largest once there is one
StatsConsistent ==
    \A t \in DOMAIN cnts :
        /\ cnts[t] = Len(results[t]) - RowHeader
        /\ cnts[t] >= 1 => mins[t] <= maxs[t]

\* C19: in the select loop the statistics of target t change only in the step
\* that matches a reply event of t with its pending entry: that step adds 1 to
\* cnts[t] and the sample's duration to tots[t], every other step leaves
\* cnts, tots, mins and maxs of t as they were (so cnts never decreases), and
\* before and after every step cnts[t] is the row length less the url and
\* address columns and mins[t] <= maxs[t] when cnts[t] >= 1.
C19_StatsOnlyOnMatched ==
    [][Sweeping =>
         /\ StatsConsistent
         /\ StatsConsistent'
         /\ \A t \in Targets :
              IF \E s \in DOMAIN requests[t] : ReplyEvent(t, s)
              THEN /\ cnts'[t] = cnts[t] + 1
                   /\ tots'[t] = tots[t] + (lisRes.endTime
                                              - requests[t][lisRes.seq])
              ELSE /\ cnts'[t] = cnts[t]
                   /\ tots'[t] = tots[t]
                   /\ mins'[t] = mins[t]
                   /\ maxs'[t] = maxs[t]]_vars

\* a target has two samples of different durations
C19_Witness ==
    /\ Sweeping
    /\ \E t \in Targets : cnts[t] = 2 /\ mins[t] < maxs[t]

\* a step of Listener, of the Pinger, of a Ping task past its notice, or of
\* the stdin task
OtherStep ==
    \/ ListenerRun
    \/ ListenerReadError
    \/ PingerRun
    \/ PingRun
    \/ QuitKey
    \/ QuitSend

\* a step of main that follows a receive or ends the warm-up loop
MainStep ==
    \/ \E dt \in {0, 1} : MainStamp(dt)
    \/ MainRecvResult
    \/ \E t \in tasks : MainRecvError(t)
    \/ \E ok \in BOOLEAN : MainResolve(ok)
    \/ MainWarmResult
    \/ \E t \in tasks : MainWarmError(t)

\* C20: the pending table, the rows and the statistics are left unchanged by
\* every step of Listener, the Pinger, a Ping task and the stdin task; a step
\* that changes them is a step of main.
C20_OnlyMainMutates ==
    [][/\ OtherStep => UNCHANGED tableVars
       /\ ~(UNCHANGED tableVars) => MainStep]_vars

\* the tables hold a pending entry and a sample while Listener offers a
\* Result, the Pinger has dispatched, a Ping task offers an Error and the
\* stdin task offers quit
C20_Witness ==
    /\ mainPc = "select"
    /\ \E t \in Targets : requests[t] # EmptyMap
    /\ \E t \in Targets : cnts[t] > 0
    /\ lisPc = "send"
    /\ pingerPc = "poll"
    /\ quitPc = "send"
    /\ \E t \in tasks : t.pc = "fail"

\* C21: while the quit signal is offered and the process runs, Listener is
\* not waiting in ReadFrom on a silent socket: it reaches its quit poll, and
\* ends, without a further datagram having to arrive.
C21_ListenerSeesQuit ==
    (quitPc = "send" /\ ~Exited /\ lisPc = "read") => net # {}

\* this step is a Ping task's conn.WriteTo
WriteEvent == \E t \in tasks : t.pc = "write" /\ t \notin tasks'

\* C22: every WriteTo of a Ping task is made on the open socket: none follows
\* the Close that Listener's return runs.
C22_WriteBeforeClose == [][WriteEvent => sockOpen]_vars

\* C23: every Matched outcome comes from the reply to the sweep probe that
\* was dispatched with the id and seq of the pending entry it removed.
C23_MatchedByOwnReply == outcome.kind = "matched" => outcome.own

\* the sweep keys whose notice was stored and whose entry has been removed
\* since, by a Matched or by a Failed outcome
Closed == {k \in recorded : ~Pending(k[1], k[2])}

\* C24: a pending entry yields one outcome at most: the step that matches a
\* reply event with a pending entry removes the entry; a key whose entry was
\* removed, by a Matched or by a Failed outcome, is never pending again; and
\* a later reply event with that key is reported Unsolicited and adds no
\* sample and changes no table.
C24_AtMostOneOutcome ==
    [][Sweeping =>
         /\ \A k \in recorded :
              (Pending(k[1], k[2]) /\ ReplyEvent(k[1], k[2]))
                  => ~Pending(k[1], k[2])'
         /\ \A k \in Closed :
              /\ ~Pending(k[1], k[2])'
              /\ ReplyEvent(k[1], k[2]) =>
                    (UNCHANGED tableVars /\ outcome'.kind = "unsolicited")]_vars

\* the entry of key (0, 0) gave a sample, a second reply with that key was
\* reported Unsolicited, and the row still has the one sample
C24_Witness ==
    /\ Sweeping
    /\ outcome.kind = "unsolicited"
    /\ <<0, 0>> \in Closed
    /\ matched = 1
    /\ cnts[0] = 1
    /\ Len(results[0]) = RowHeader + 1

\* the goroutines blocked in a channel send whose other end is main's select:
\* Ping tasks in requests <- or errors <-, Listener in results <-
NoSenderWaits ==
    /\ \A t \in tasks : t.pc \notin {"notify", "fail"}
    /\ lisPc # "send"

\* C25: in the select loop, until the process exits, every Ping task blocked
\* in requests <- or errors <- and Listener blocked in results <- is served
\* by main in the end, and the Pinger goes on to its last dispatch or to its
\* return on quit, however many Ping tasks are blocked or have failed.
C25_SendersServed ==
    /\ []<>(~Sweeping \/ NoSenderWaits)
    /\ []<>(~Sweeping \/ pingerPc = "stopped" \/ Len(dispatched) = MaxSweep)

\* in the select loop Listener and two Ping tasks, one with a notice and one
\* with an Error, wait for main, and the Pinger runs
C25_Witness ==
    /\ mainPc = "select"
    /\ lisPc = "send"
    /\ \E t \in tasks : t.pc = "notify"
    /\ \E t \in tasks : t.pc = "fail"
    /\ pingerPc # "stopped"

====
